---- MODULE Spec2Model ----
(***************************************************************************)
(* Model of one crawl session of the SEO analyzer:                         *)
(*   - AsyncWebCrawler.fetch_page / crawl_website  (services/crawler.py)   *)
(*   - start_crawl / start_unified_crawl / stop_crawl  (api/crawls.py)     *)
(* URLs are the integers 1..NumUrls, start_url is 1.  The content of a     *)
(* page (its internal links) is chosen when the page is fetched, so every  *)
(* link graph over the URLs is covered.                                    *)
(* The politeness gate (can_fetch, should_exclude_url), the try block of   *)
(* fetch_page with its render pass, and TechnicalSEOAnalyzer.analyze_page   *)
(* are also modelled in detail, each under a specification of its own.     *)
(***************************************************************************)
EXTENDS Integers, Sequences, FiniteSets, TLC

\* ---------------------------------------------------------------- bounds
NumUrls == 4
MaxMaxUrls == 3
MaxMaxDepth == 2
MaxMaxConcurrent == 2
MaxBlocked == 1
NumHosts == 1
NumPaths == 2
MaxGateCalls == 3
MaxUrlLen == 3
MaxPatternLen == 2
MaxPatterns == 2
NumBodies == 2
MaxFetchCalls == 5
MaxAnalyses == 2
MaxTitleLen == 61
MaxRuleCalls == 1
MaxTextLen == 2
MaxElements == 2
NumContentUrls == 2
MaxContentCalls == 2
MaxIssues == 1
MaxSessions == 3
MaxResults == 3
MaxPageIssues == 1

URLS == 1..NumUrls
start_url == 1

VARIABLES
    config,         \* CrawlConfig: max_urls, max_depth, max_concurrent
    robots_disallowed, \* URLs for which RobotFileParser.can_fetch is False
    excluded_urls,  \* URLs matched by the include/exclude patterns
    technical_issues, \* per URL, the number of issues the analysis of its page finds
    status,         \* CrawlSession.status ("none" before the row exists)
    pc,             \* position of the background task / crawl_website
    visited_urls,   \* AsyncWebCrawler.visited_urls
    stats,          \* AsyncWebCrawler.stats (counters)
    semaphore,      \* value of AsyncWebCrawler.semaphore
    urls_to_crawl,  \* crawl_website: the frontier, a list of (url, depth)
    crawled_pages,  \* crawl_website: the page list it returns
    tasks,          \* the batch's fetch_page tasks, in creation order
    ri,             \* index of the next batch result to process
    fetch_log,      \* history: (url, depth) of every HTTP GET issued
    failed_urls,    \* history: URLs whose fetch raised
    gate_skips,     \* history: dispatches turned away at the gate as already visited
    created,        \* history: every frontier entry ever created, with its origin
    exc,            \* the exception that escaped crawl_website or the saving, "none" if none
    error_message,  \* CrawlSession.error_message
    snapshots       \* history: the snapshots handed to progress_callback, in order

\* The politeness gate on its own (can_fetch, should_exclude_url).
VARIABLES
    gate_config,    \* CrawlConfig: respect_robots, exclude_patterns, include_patterns
    robots_cache,   \* AsyncWebCrawler.robots_cache: scheme+host -> RobotFileParser, None if absent
    robots_reads,   \* history: per scheme+host, the calls of RobotFileParser.read that returned
    gate_calls,     \* history: number of calls of the gate so far
    gate_call       \* history: the last call of the gate, None before the first

gate_vars == <<gate_config, robots_cache, robots_reads, gate_calls, gate_call>>

\* The try block of fetch_page on its own (static fetch, render pass).
VARIABLES
    fetch_env,      \* CrawlConfig.render_javascript and whether browser_context is set
    fetch_stats,    \* AsyncWebCrawler.stats of this crawler
    fetch_call      \* history: the last fetch, None before the first

fetch_vars == <<fetch_env, fetch_stats, fetch_call>>

\* TechnicalSEOAnalyzer.analyze_page on its own.
VARIABLES
    analysis,       \* the call of analyze_page in progress or last returned, None before the first
    analyses,       \* history: number of calls of analyze_page that returned
    first_result    \* history: page and issue set of the first call that returned

rules_vars == <<analysis, analyses, first_result>>
old_units == <<gate_vars, fetch_vars, rules_vars>>

\* ContentAnalyzer.analyze_content on its own.
VARIABLES
    content_call,   \* history: the last call of analyze_content, None before the first
    content_first,  \* history: visible text and fingerprint of the first call
    content_calls   \* history: number of calls of analyze_content

content_vars == <<content_call, content_first, content_calls>>

\* The crawl sessions of one project (start_crawl, stop_crawl and the
\* background task of each session).
VARIABLES
    sessions,       \* per session id, CrawlSession.status ("none": no such row)
    background,     \* per session id, the position of its start_unified_crawl task
    last_start      \* history: the last start_crawl request and its answer, None before the first

project_vars == <<sessions, background, last_start>>

\* save_crawl_results on its own.
VARIABLES
    results,        \* parameter results: per page result, the number of its technical_issues
    db_refuses,     \* the page results at whose db.commit() the database raises
    save_pc,        \* "idle", "loop" (before page save_pos), "returned"
    save_pos,       \* index of the next page result of the for loop
    db_pending,     \* rows added to the db session and not committed
    db_rows,        \* rows committed
    saved_pages,    \* save_crawl_results: the list it returns, as indexes of results
    save_failed     \* history: the page results whose try block raised

save_vars == <<results, db_refuses, save_pc, save_pos, db_pending, db_rows, saved_pages,
               save_failed>>

\* crawl_website_task: the session row it writes besides status.
VARIABLES
    task_crawled_urls \* CrawlSession.crawled_urls as crawl_website_task sets it

task_vars == <<task_crawled_urls>>
late_units == <<project_vars, save_vars, task_vars>>
new_units == <<content_vars, late_units>>
units == <<old_units, new_units>>

vars == <<config, robots_disallowed, excluded_urls, technical_issues, status, pc, visited_urls,
          stats, semaphore, urls_to_crawl, crawled_pages, tasks, ri,
          fetch_log, failed_urls, gate_skips, created, exc, error_message,
          snapshots, units>>

\* ---------------------------------------------------------------- helpers
Min(a, b) == IF a < b THEN a ELSE b

RECURSIVE SetToSeq(_)
\* the elements of a set of integers in ascending order (document order of links)
SetToSeq(S) ==
    IF S = {} THEN <<>>
    ELSE LET m == CHOOSE x \in S : \A y \in S : x <= y
         IN <<m>> \o SetToSeq(S \ {m})

SeqRange(s) == {s[i] : i \in 1..Len(s)}

None == <<>>

\* ---------------------------------------------------------------- pure parts of AsyncWebCrawler
\* self.config.max_concurrent, as read by __init__ and crawl_website
MaxConcurrent_offbyone(cfg) == cfg.max_concurrent + 1
MaxConcurrent(cfg) == cfg.max_concurrent

\* asyncio.Semaphore(config.max_concurrent)
NewSemaphore(cfg) == MaxConcurrent(cfg)

\* can_fetch(url): the robots verdict for the URL
can_fetch(url) == url \notin robots_disallowed

\* should_exclude_url(url): the verdict of the include/exclude patterns
should_exclude_url(url) == url \in excluded_urls

\* the gate of fetch_page: TRUE when fetch_page returns None without fetching
Gate_novisited(url, visited) == ~can_fetch(url) \/ should_exclude_url(url)
Gate(url, visited) ==
    url \in visited \/ ~can_fetch(url) \/ should_exclude_url(url)

\* self.visited_urls.add(url)
MarkVisited_forget(visited, url) == visited
MarkVisited(visited, url) == visited \cup {url}

\* analyze_page_comprehensive: the fields of the page record the crawl uses
analyze_page_comprehensive_depth1(url, links, depth) ==
    [url |-> url, depth |-> depth + 1, internal_links |-> links]
analyze_page_comprehensive(url, links, depth) ==
    [url |-> url, depth |-> depth, internal_links |-> links]

\* batch_size = min(self.config.max_concurrent, len(urls_to_crawl))
batch_size_all(cfg, queue) == Len(queue)

batch_size(cfg, queue) == Min(MaxConcurrent(cfg), Len(queue))

\* the loop condition of crawl_website
LoopCondition(queue, pages, cfg) == queue # <<>> /\ Len(pages) < cfg.max_urls

\* the depth test that decides whether a batch entry gets a task
DepthAllowed_always(depth, cfg) == TRUE
DepthAllowed(depth, cfg) == depth <= cfg.max_depth

\* the tasks of a batch: one per entry with depth <= max_depth
RECURSIVE MakeTasks(_, _)
MakeTasks(batch, cfg) ==
    IF batch = <<>> THEN <<>>
    ELSE LET e == Head(batch)
         IN (IF DepthAllowed(e.depth, cfg)
                THEN <<[url |-> e.url, depth |-> e.depth, st |-> "created", result |-> None]>>
                ELSE <<>>)
            \o MakeTasks(Tail(batch), cfg)

\* the frontier entry appended for a link of a page result
NewEntry_samedepth(link_url, result) == [url |-> link_url, depth |-> result.depth]
NewEntry(link_url, result) == [url |-> link_url, depth |-> result.depth + 1]

\* the test deciding whether a link of a result is appended to the frontier
ShouldEnqueue(link_url, visited, pages, cfg) ==
    /\ link_url \notin visited
    /\ Len(pages) < cfg.max_urls
    /\ ~should_exclude_url(link_url)

\* the entries appended for a page result (crawled_pages already holds it)
RECURSIVE LinkEntries(_, _, _, _, _)
LinkEntries(links, result, visited, pages, cfg) ==
    IF links = <<>> THEN <<>>
    ELSE (IF ShouldEnqueue(Head(links), visited, pages, cfg)
             THEN <<NewEntry(Head(links), result)>>
             ELSE <<>>)
         \o LinkEntries(Tail(links), result, visited, pages, cfg)

EnqueueLinks(result, visited, pages, cfg) ==
    IF result.depth < cfg.max_depth
       THEN LinkEntries(result.internal_links, result, visited, pages, cfg)
       ELSE <<>>

\* ---------------------------------------------------------------- initial state
Configs ==
    [max_urls : 1..MaxMaxUrls, max_depth : (0 - 1)..MaxMaxDepth,
     max_concurrent : 1..MaxMaxConcurrent]

\* Schemes, hosts and paths of the URLs handed to the politeness gate.
Schemes == {"http", "https"}
Domains == Schemes \X (1..NumHosts)
GateUrls == [scheme : Schemes, host : 1..NumHosts, path : 1..NumPaths]

\* The politeness gate of a crawler that has not been asked yet, with the
\* default patterns and respect_robots of CrawlConfig.
GateIdle ==
    /\ gate_config = [respect_robots |-> TRUE, exclude_patterns |-> <<>>,
                      include_patterns |-> <<>>]
    /\ robots_cache = [d \in Domains |-> None]
    /\ robots_reads = [d \in Domains |-> 0]
    /\ gate_calls = 0
    /\ gate_call = None

\* A crawler that renders, before its first fetch.
FetchIdle ==
    /\ fetch_env = [render_javascript |-> TRUE, browser_context |-> TRUE]
    /\ fetch_stats = [total_processed |-> 0, successful |-> 0, failed |-> 0]
    /\ fetch_call = None

\* The analyzer before its first page.
RulesIdle ==
    /\ analysis = None
    /\ analyses = 0
    /\ first_result = None

\* The content analyzer before its first page.
ContentIdle ==
    /\ content_call = None
    /\ content_first = None
    /\ content_calls = 0

\* A project without crawl sessions.
ProjectIdle ==
    /\ sessions = [s \in 1..MaxSessions |-> "none"]
    /\ background = [s \in 1..MaxSessions |-> "none"]
    /\ last_start = None

\* save_crawl_results before it is called, with nothing to save.
SaveIdle ==
    /\ results = <<>>
    /\ db_refuses = {}
    /\ save_pc = "idle"
    /\ save_pos = 1
    /\ db_pending = {}
    /\ db_rows = {}
    /\ saved_pages = <<>>
    /\ save_failed = {}

\* The session row of crawl_website_task: crawled_urls has its default.
TaskIdle == task_crawled_urls = 0

LateIdle ==
    /\ ProjectIdle
    /\ SaveIdle
    /\ TaskIdle

\* The parts modelled on their own, each before its first call.
UnitsIdle ==
    /\ GateIdle
    /\ FetchIdle
    /\ RulesIdle
    /\ ContentIdle
    /\ LateIdle

\* The crawler as AsyncWebCrawler.__init__ leaves it.
CrawlerNew ==
    /\ visited_urls = {}
    /\ stats = [total_processed |-> 0, successful |-> 0, failed |-> 0]
    /\ semaphore = NewSemaphore(config)
    /\ urls_to_crawl = <<>>
    /\ crawled_pages = <<>>
    /\ tasks = <<>>
    /\ ri = 1
    /\ fetch_log = [u \in URLS |-> <<>>]
    /\ failed_urls = {}
    /\ gate_skips = {}
    /\ created = {}
    /\ exc = "none"
    /\ error_message = "none"
    /\ snapshots = <<>>

\* No session row yet, a new crawler.
CrawlerFresh ==
    /\ status = "none"
    /\ pc = "start"
    /\ CrawlerNew

\* Any configuration and any site with at most MaxBlocked URLs shut off,
\* whose pages have no issue.
CrawlInit ==
    /\ config \in Configs
    /\ robots_disallowed \in SUBSET URLS
    /\ excluded_urls \in SUBSET URLS
    /\ Cardinality(robots_disallowed \cup excluded_urls) <= MaxBlocked
    /\ technical_issues = [u \in URLS |-> 0]
    /\ CrawlerFresh

Init ==
    /\ CrawlInit
    /\ UnitsIdle

crawler_vars == <<visited_urls, stats, semaphore, urls_to_crawl, crawled_pages,
                  tasks, ri, fetch_log, failed_urls, gate_skips, created>>
inputs == <<config, robots_disallowed, excluded_urls, technical_issues>>
aux == <<exc, error_message, snapshots>>
crawl_job == <<inputs, status, pc, crawler_vars, aux>>

\* A crawl job that has not started, for the specifications of single parts.
JobIdle ==
    /\ CrawlInit
    /\ config = [max_urls |-> 1, max_depth |-> 0, max_concurrent |-> 1]
    /\ robots_disallowed = {}
    /\ excluded_urls = {}

\* ---------------------------------------------------------------- api/crawls.py
\* start_crawl: inserts the session row with status "pending" and schedules
\* start_unified_crawl as a background task.
start_crawl ==
    /\ pc = "start"
    /\ status' = "pending"
    /\ pc' = "queued"
    /\ UNCHANGED <<inputs, units, crawler_vars, aux>>

\* start_unified_crawl up to the call of crawl_website, and crawl_website up to
\* its loop: the session is set to "running", the frontier holds the seed.
start_unified_crawl_begin ==
    /\ pc = "queued"
    /\ status' = "running"
    /\ urls_to_crawl' = <<[url |-> start_url, depth |-> 0]>>
    /\ crawled_pages' = <<>>
    /\ created' = {[url |-> start_url, depth |-> 0, from |-> None]}
    /\ pc' = "loop"
    /\ UNCHANGED <<inputs, units, visited_urls, stats, semaphore, tasks, ri, fetch_log,
                   failed_urls, gate_skips, aux>>

\* stop_crawl: a pending or running session becomes "cancelled".
stop_crawl ==
    /\ status \in {"pending", "running"}
    /\ status' = "cancelled"
    /\ error_message' = "Crawl stopped by user"
    /\ UNCHANGED <<inputs, units, pc, crawler_vars, exc, snapshots>>

\* delete_project (api/projects.py): every pending or running session of the
\* project becomes "cancelled".
delete_project ==
    /\ status \in {"pending", "running"}
    /\ status' = "cancelled"
    /\ UNCHANGED <<inputs, units, pc, crawler_vars, aux>>

\* start_unified_crawl after crawl_website returned: results are saved and the
\* session is marked "completed".
start_unified_crawl_complete ==
    /\ pc = "returned"
    /\ status' = "completed"
    /\ pc' = "end"
    /\ UNCHANGED <<inputs, units, crawler_vars, aux>>

\* start_unified_crawl after crawl_website returned, save_crawled_pages or
\* update_session_statistics raising: control goes to the except branch.
start_unified_crawl_save_error ==
    /\ pc = "returned"
    /\ exc' = "save"
    /\ pc' = "raised"
    /\ UNCHANGED <<inputs, units, status, crawler_vars, error_message, snapshots>>

\* the session fields written by start_unified_crawl's except branch
FailedSession_keepmessage(e, message) == [status |-> "failed", error_message |-> message]
FailedSession(e, message) == [status |-> "failed", error_message |-> e]

\* start_unified_crawl's except branch: the session is marked "failed" and
\* error_message is set to str(e).
start_unified_crawl_fail ==
    /\ pc = "raised"
    /\ status' = FailedSession(exc, error_message).status
    /\ error_message' = FailedSession(exc, error_message).error_message
    /\ pc' = "end"
    /\ UNCHANGED <<inputs, units, crawler_vars, exc, snapshots>>

\* ---------------------------------------------------------------- crawl_website
\* One pass of the while loop up to asyncio.gather: slice the batch off the
\* frontier and create a fetch_page task per entry with depth <= max_depth.
StartBatch ==
    /\ pc = "loop"
    /\ LoopCondition(urls_to_crawl, crawled_pages, config)
    /\ LET n == batch_size(config, urls_to_crawl)
       IN /\ tasks' = MakeTasks(SubSeq(urls_to_crawl, 1, n), config)
          /\ urls_to_crawl' = SubSeq(urls_to_crawl, n + 1, Len(urls_to_crawl))
    /\ ri' = 1
    /\ pc' = "gather"
    /\ UNCHANGED <<inputs, units, status, visited_urls, stats, semaphore, crawled_pages,
                   fetch_log, failed_urls, gate_skips, created, aux>>

\* total_processed after visited_urls.add
ProcessedAfterAdd_same(n) == n
ProcessedAfterAdd(n) == n + 1

\* fetch_page from the acquisition of the semaphore to its first suspension:
\* the gate, then visited_urls.add and total_processed += 1 and the HTTP GET.
\* A task turned away by the gate releases the semaphore in the same step.
\* asyncio.gather schedules the tasks of a batch in the order of the list and
\* each runs to its first suspension before the next one starts, so task i
\* enters after the tasks before it.
FetchEnter(i) ==
    /\ pc = "gather"
    /\ i \in 1..Len(tasks)
    /\ tasks[i].st = "created"
    /\ \A j \in 1..(i - 1) : tasks[j].st # "created"
    /\ semaphore > 0
    /\ LET t == tasks[i]
       IN IF Gate(t.url, visited_urls)
             THEN /\ tasks' = [tasks EXCEPT ![i].st = "done"]
                  /\ gate_skips' =
                        IF t.url \in visited_urls
                           THEN gate_skips \cup
                                {[url |-> t.url, after_failure |-> t.url \in failed_urls]}
                           ELSE gate_skips
                  /\ UNCHANGED <<visited_urls, stats, semaphore, fetch_log>>
             ELSE /\ visited_urls' = MarkVisited(visited_urls, t.url)
                  /\ stats' = [stats EXCEPT !.total_processed = ProcessedAfterAdd(@)]
                  /\ semaphore' = semaphore - 1
                  /\ fetch_log' = [fetch_log EXCEPT ![t.url] = Append(@, t.depth)]
                  /\ tasks' = [tasks EXCEPT ![i].st = "fetching"]
                  /\ UNCHANGED gate_skips
    /\ UNCHANGED <<inputs, units, status, pc, urls_to_crawl, crawled_pages, ri,
                   failed_urls, created, aux>>

\* fetch_page, the try block running to its end: the page is fetched and
\* analyzed, successful += 1, the semaphore is released.
FetchSucceed(i, links) ==
    /\ pc = "gather"
    /\ i \in 1..Len(tasks)
    /\ tasks[i].st = "fetching"
    /\ LET t == tasks[i]
           page == analyze_page_comprehensive(t.url, SetToSeq(links), t.depth)
       IN tasks' = [tasks EXCEPT ![i].st = "done", ![i].result = <<page>>]
    /\ stats' = [stats EXCEPT !.successful = @ + 1]
    /\ semaphore' = semaphore + 1
    /\ UNCHANGED <<inputs, units, status, pc, visited_urls, urls_to_crawl, crawled_pages,
                   ri, fetch_log, failed_urls, gate_skips, created, aux>>

\* the failure counter after an exception in fetch_page's try block
FailedAfterError_same(n) == n
FailedAfterError(n) == n + 1

\* fetch_page, the except branch: failed += 1, the task returns None.
FetchFail(i) ==
    /\ pc = "gather"
    /\ i \in 1..Len(tasks)
    /\ tasks[i].st = "fetching"
    /\ tasks' = [tasks EXCEPT ![i].st = "done"]
    /\ stats' = [stats EXCEPT !.failed = FailedAfterError(@)]
    /\ failed_urls' = failed_urls \cup {tasks[i].url}
    /\ semaphore' = semaphore + 1
    /\ UNCHANGED <<inputs, units, status, pc, visited_urls, urls_to_crawl, crawled_pages,
                   ri, fetch_log, gate_skips, created, aux>>

\* asyncio.gather(*tasks) is complete when every task of the batch is done
GatherComplete_first(ts) == ts = <<>> \/ \E i \in 1..Len(ts) : ts[i].st = "done"
GatherComplete(ts) == \A i \in 1..Len(ts) : ts[i].st = "done"

\* asyncio.gather returns once every task of the batch is done.
GatherDone ==
    /\ pc = "gather"
    /\ GatherComplete(tasks)
    /\ pc' = IF tasks = <<>> THEN "loop" ELSE "results"
    /\ ri' = 1
    /\ UNCHANGED <<inputs, units, status, visited_urls, stats, semaphore, urls_to_crawl,
                   crawled_pages, tasks, fetch_log, failed_urls, gate_skips,
                   created, aux>>

\* len(p['technical_issues']) of a collected page
IssuesOf(page) == technical_issues[page.url]

\* sum(len(p['technical_issues']) for p in crawled_pages)
RECURSIVE TotalIssues(_)
TotalIssues_last(pages) == IssuesOf(pages[Len(pages)])
TotalIssues(pages) ==
    IF pages = <<>> THEN 0
    ELSE IssuesOf(pages[Len(pages)]) + TotalIssues(SubSeq(pages, 1, Len(pages) - 1))

\* urls_to_crawl.extend(...): the new entries go to the end of the frontier
Extend_front(queue, new) == new \o queue
Extend(queue, new) == queue \o new

\* the snapshot handed to progress_callback (the counters, the position and
\* the issue count; load times are not modelled)
Snapshot(pages, st, result, queue) ==
    [pages_crawled |-> Len(pages), failed |-> st.failed,
     current_url |-> result.url, queue_size |-> Len(queue),
     total_issues |-> TotalIssues(pages)]

\* One pass of "for result in batch_results": a page result is appended to
\* crawled_pages, its links are enqueued and progress_callback is awaited with
\* a snapshot; None is skipped.  cb_ok is FALSE when progress_callback raises:
\* nothing catches the exception, so it leaves crawl_website.
ProcessBatchResult(cb_ok) ==
    /\ pc = "results"
    /\ LET r == tasks[ri].result
       IN IF r # None
             THEN LET page == r[1]
                      pages == Append(crawled_pages, page)
                      new == EnqueueLinks(page, visited_urls, pages, config)
                      queue == Extend(urls_to_crawl, new)
                  IN /\ crawled_pages' = pages
                     /\ urls_to_crawl' = queue
                     /\ created' = created \cup
                            {[url |-> e.url, depth |-> e.depth,
                              from |-> <<page.url, page.depth>>] : e \in SeqRange(new)}
                     /\ snapshots' = Append(snapshots, Snapshot(pages, stats, page, queue))
             ELSE /\ cb_ok
                  /\ UNCHANGED <<crawled_pages, urls_to_crawl, created, snapshots>>
    /\ IF ~cb_ok
          THEN /\ pc' = "raised"
               /\ exc' = "observer"
               /\ UNCHANGED <<ri, tasks>>
          ELSE /\ exc' = exc
               /\ IF ri = Len(tasks)
                     THEN /\ pc' = "loop"
                          /\ ri' = 1
                          /\ tasks' = <<>>
                     ELSE /\ ri' = ri + 1
                          /\ UNCHANGED <<pc, tasks>>
    /\ UNCHANGED <<inputs, status, visited_urls, stats, semaphore, fetch_log,
                   failed_urls, gate_skips, error_message>>

\* The same pass in a crawl started by start_unified_crawl.
ProcessResult(cb_ok) ==
    /\ ProcessBatchResult(cb_ok)
    /\ UNCHANGED units

\* The loop has ended: the final statistics are logged, among them
\* successful / total_processed, which raises ZeroDivisionError when nothing
\* was processed; otherwise crawled_pages is returned.
CrawlReturn ==
    /\ pc = "loop"
    /\ ~LoopCondition(urls_to_crawl, crawled_pages, config)
    /\ pc' = IF stats.total_processed = 0 THEN "raised" ELSE "returned"
    /\ exc' = IF stats.total_processed = 0 THEN "ZeroDivisionError" ELSE exc
    /\ UNCHANGED <<inputs, units, status, crawler_vars, error_message, snapshots>>

Next ==
    \/ start_crawl
    \/ start_unified_crawl_begin
    \/ start_unified_crawl_complete
    \/ start_unified_crawl_save_error
    \/ start_unified_crawl_fail
    \/ StartBatch
    \/ \E i \in 1..MaxMaxConcurrent : FetchEnter(i)
    \/ \E i \in 1..MaxMaxConcurrent, links \in SUBSET URLS : FetchSucceed(i, links)
    \/ \E i \in 1..MaxMaxConcurrent : FetchFail(i)
    \/ GatherDone
    \/ \E cb_ok \in BOOLEAN : ProcessResult(cb_ok)
    \/ CrawlReturn

\* One crawl job from start_crawl to the end of its background task.
Spec == Init /\ [][Next]_vars

\* The crawl of a site whose pages carry issues, under the largest
\* configuration and with no URL shut off.
ProgressInit ==
    /\ config = [max_urls |-> MaxMaxUrls, max_depth |-> MaxMaxDepth,
                 max_concurrent |-> MaxMaxConcurrent]
    /\ robots_disallowed = {}
    /\ excluded_urls = {}
    /\ technical_issues \in [URLS -> 0..MaxIssues]
    /\ CrawlerFresh
    /\ UnitsIdle

SpecProgress == ProgressInit /\ [][Next]_vars

\* The same job with the requests that cancel it, stop_crawl and
\* delete_project, arriving at any moment.  The session logic does not read
\* the robots verdicts or the concurrency, so these are narrowed.
SessionInit ==
    /\ Init
    /\ robots_disallowed = {}
    /\ excluded_urls \subseteq {start_url}
    /\ config.max_concurrent = 1

SessionNext ==
    \/ Next
    \/ stop_crawl
    \/ delete_project

SpecSession == SessionInit /\ [][SessionNext]_vars

\* ---------------------------------------------------------------- the politeness gate
\* What the request for <domain>/robots.txt can end with.  urlopen raises
\* HTTPError for a 4xx/5xx answer, which RobotFileParser.read handles itself,
\* and URLError when the host cannot be reached, which read lets through.
ReadOutcomes == {"policy", "http_401", "http_403", "http_4xx", "http_5xx", "error"}

\* RobotFileParser(): no rule, nothing read yet.
RobotFileParser ==
    [disallow_all |-> FALSE, allow_all |-> FALSE, last_checked |-> FALSE,
     disallowed |-> {}]

\* RobotFileParser.read for an outcome that does not raise: 401/403 set
\* disallow_all, any other 4xx sets allow_all, a 5xx sets nothing, and a body
\* is parsed (disallowed is the set of paths its rules forbid the user agent).
ReadParser(outcome, policy) ==
    CASE outcome \in {"http_401", "http_403"} ->
             [RobotFileParser EXCEPT !.disallow_all = TRUE]
      [] outcome = "http_4xx" -> [RobotFileParser EXCEPT !.allow_all = TRUE]
      [] outcome = "http_5xx" -> RobotFileParser
      [] outcome = "policy" ->
             [RobotFileParser EXCEPT !.last_checked = TRUE, !.disallowed = policy]

\* RobotFileParser.can_fetch(user_agent, url)
ParserCanFetch(rp, url) ==
    IF rp.disallow_all THEN FALSE
    ELSE IF rp.allow_all THEN TRUE
    ELSE IF ~rp.last_checked THEN FALSE
    ELSE url.path \notin rp.disallowed

\* f"{parsed_url.scheme}://{parsed_url.netloc}"
Domain(url) == <<url.scheme, url.host>>

InRobotsCache_never(cache, domain) == FALSE

\* domain in self.robots_cache
InRobotsCache(cache, domain) == cache[domain] # None

\* can_fetch(url), the whole call: outcome and policy are what the site answers
\* if the call requests robots.txt.
CanFetchCall(url, outcome, policy) ==
    LET domain == Domain(url)
    IN /\ gate_calls < MaxGateCalls
       /\ gate_calls' = gate_calls + 1
       /\ IF ~gate_config.respect_robots
          THEN /\ gate_call' = [url |-> url, verdict |-> TRUE, read |-> "none"]
               /\ UNCHANGED <<robots_cache, robots_reads>>
          ELSE IF InRobotsCache(robots_cache, domain)
          THEN /\ gate_call' = [url |-> url, read |-> "none",
                                verdict |-> ParserCanFetch(robots_cache[domain], url)]
               /\ UNCHANGED <<robots_cache, robots_reads>>
          ELSE IF outcome = "error"
          THEN /\ gate_call' = [url |-> url, verdict |-> TRUE, read |-> outcome]
               /\ UNCHANGED <<robots_cache, robots_reads>>
          ELSE LET rp == ReadParser(outcome, policy)
               IN /\ robots_cache' = [robots_cache EXCEPT ![domain] = rp]
                  /\ robots_reads' = [robots_reads EXCEPT ![domain] = @ + 1]
                  /\ gate_call' = [url |-> url, read |-> outcome,
                                   verdict |-> ParserCanFetch(rp, url)]
       /\ UNCHANGED <<gate_config, fetch_vars, rules_vars, new_units, crawl_job>>

RobotsInit ==
    /\ CrawlInit
    /\ config = [max_urls |-> 1, max_depth |-> 0, max_concurrent |-> 1]
    /\ robots_disallowed = {}
    /\ excluded_urls = {}
    /\ FetchIdle
    /\ RulesIdle
    /\ ContentIdle
    /\ LateIdle
    /\ gate_config \in [respect_robots : BOOLEAN, exclude_patterns : {<<>>},
                        include_patterns : {<<>>}]
    /\ robots_cache = [d \in Domains |-> None]
    /\ robots_reads = [d \in Domains |-> 0]
    /\ gate_calls = 0
    /\ gate_call = None

RobotsNext ==
    \E url \in GateUrls, outcome \in ReadOutcomes, policy \in SUBSET (1..NumPaths) :
        CanFetchCall(url, outcome, policy)

\* A crawler's can_fetch called on any sequence of URLs, with any answers of
\* the sites to the requests for robots.txt.
SpecRobots == RobotsInit /\ [][RobotsNext]_vars

\* URLs and patterns as strings over a two-letter alphabet.
Alphabet == {"a", "b"}
StringsUpTo(n) == UNION {[1..k -> Alphabet] : k \in 0..n}
PatternLists == UNION {[1..k -> StringsUpTo(MaxPatternLen)] : k \in 0..MaxPatterns}

\* pattern in url
IsSubstring(pattern, url) ==
    \E i \in 0..(Len(url) - Len(pattern)) : SubSeq(url, i + 1, i + Len(pattern)) = pattern

RECURSIVE AnyPatternIn(_, _)
\* for pattern in patterns: if pattern in url: (leave the loop)
AnyPatternIn(patterns, url) ==
    IF patterns = <<>> THEN FALSE
    ELSE IF IsSubstring(Head(patterns), url) THEN TRUE
    ELSE AnyPatternIn(Tail(patterns), url)

ShouldExcludeUrl_includefirst(url, exclude_patterns, include_patterns) ==
    IF include_patterns # <<>> /\ AnyPatternIn(include_patterns, url) THEN FALSE
    ELSE IF exclude_patterns # <<>> /\ AnyPatternIn(exclude_patterns, url) THEN TRUE
    ELSE include_patterns # <<>>

\* should_exclude_url(url) for the two pattern lists of the configuration
ShouldExcludeUrl(url, exclude_patterns, include_patterns) ==
    IF exclude_patterns # <<>> /\ AnyPatternIn(exclude_patterns, url) THEN TRUE
    ELSE IF include_patterns # <<>>
         THEN IF AnyPatternIn(include_patterns, url) THEN FALSE ELSE TRUE
    ELSE FALSE

\* should_exclude_url(url), the call
ShouldExcludeUrlCall(url) ==
    /\ gate_call' = [url |-> url,
                     verdict |-> ShouldExcludeUrl(url, gate_config.exclude_patterns,
                                                  gate_config.include_patterns)]
    /\ UNCHANGED <<gate_config, robots_cache, robots_reads, gate_calls,
                   fetch_vars, rules_vars, new_units, crawl_job>>

FilterInit ==
    /\ CrawlInit
    /\ config = [max_urls |-> 1, max_depth |-> 0, max_concurrent |-> 1]
    /\ robots_disallowed = {}
    /\ excluded_urls = {}
    /\ FetchIdle
    /\ RulesIdle
    /\ ContentIdle
    /\ LateIdle
    /\ gate_config \in [respect_robots : {TRUE}, exclude_patterns : PatternLists,
                        include_patterns : PatternLists]
    /\ robots_cache = [d \in Domains |-> None]
    /\ robots_reads = [d \in Domains |-> 0]
    /\ gate_calls = 0
    /\ gate_call = None

FilterNext == \E url \in StringsUpTo(MaxUrlLen) : ShouldExcludeUrlCall(url)

\* should_exclude_url called on any URLs, for any two pattern lists.
SpecFilter == FilterInit /\ [][FilterNext]_vars

\* ---------------------------------------------------------------- fetch_page, static and rendered
\* An outcome of a request is Raise or the body it delivers; the bodies of
\* the render pass are numbered after those of the static fetch.
Raise == 0
StaticOutcomes == {Raise} \cup (1..NumBodies)
RenderOutcomes == {Raise} \cup ((NumBodies + 1)..(NumBodies + NumBodies))

\* an exception leaving render_with_javascript
Raised == [raised |-> TRUE]

render_with_javascript_propagate(browser_context, outcome) ==
    IF ~browser_context THEN None
    ELSE IF outcome = Raise THEN Raised
    ELSE [content |-> outcome]

\* render_with_javascript(url): None without a browser context and None when
\* anything in the render pass raises
render_with_javascript(browser_context, outcome) ==
    IF ~browser_context THEN None
    ELSE IF outcome = Raise THEN None
    ELSE [content |-> outcome]

\* content = js_data['content'] if js_data else basic_html
PageContent(js_data, basic_html) ==
    IF js_data # None THEN js_data.content ELSE basic_html

\* The try block of fetch_page for a URL that passed the gate: static is the
\* outcome of session.get, render that of the render pass if there is one.
FetchPage(static, render) ==
    LET rendering == fetch_env.render_javascript /\ static # Raise
        js_data == IF rendering
                   THEN render_with_javascript(fetch_env.browser_context, render)
                   ELSE None
        raises == static = Raise \/ js_data = Raised
        render_pass == IF ~(rendering /\ fetch_env.browser_context) THEN "none"
                       ELSE IF render = Raise THEN "failed" ELSE "rendered"
    IN /\ fetch_stats.total_processed < MaxFetchCalls
       /\ IF raises
          THEN /\ fetch_stats' = [fetch_stats EXCEPT !.total_processed = @ + 1,
                                                     !.failed = @ + 1]
               /\ fetch_call' = [static |-> static, render |-> render_pass,
                                 page |-> None]
          ELSE /\ fetch_stats' = [fetch_stats EXCEPT !.total_processed = @ + 1,
                                                     !.successful = @ + 1]
               /\ fetch_call' = [static |-> static, render |-> render_pass,
                                 page |-> [content |-> PageContent(js_data, static),
                                           rendered |-> js_data # None]]
       /\ UNCHANGED <<fetch_env, gate_vars, rules_vars, new_units, crawl_job>>

FetchInit ==
    /\ CrawlInit
    /\ config = [max_urls |-> 1, max_depth |-> 0, max_concurrent |-> 1]
    /\ robots_disallowed = {}
    /\ excluded_urls = {}
    /\ GateIdle
    /\ RulesIdle
    /\ ContentIdle
    /\ LateIdle
    /\ fetch_env \in {e \in [render_javascript : BOOLEAN, browser_context : BOOLEAN] :
                         e.browser_context <=> e.render_javascript}
    /\ fetch_stats = [total_processed |-> 0, successful |-> 0, failed |-> 0]
    /\ fetch_call = None

FetchNext ==
    \E static \in StaticOutcomes, render \in RenderOutcomes : FetchPage(static, render)

\* A crawler after __aenter__ (the browser context is there exactly when
\* render_javascript is left on) fetching a sequence of URLs, each static fetch
\* and each render pass succeeding or failing.
SpecFetch == FetchInit /\ [][FetchNext]_vars

\* ---------------------------------------------------------------- TechnicalSEOAnalyzer
\* What the rules read from the parsed document (soup):
\*   title, meta_description  length of the stripped text, NoElement if the tag is absent
\*   headings                 levels of the h1..h6 tags in document order
\*   canonical                [present, href] of <link rel="canonical">
\*   robots_meta              [present, content] of <meta name="robots">, the
\*                            directives among noindex/nofollow its content holds
\*   json_ld, microdata       numbers of schema blocks of either kind
\*   images                   one [sized, alt] per <img>
\*   elements                 number of tags of the document
\*   inputs                   one [labelled] per text-like <input>
\*   og                       the og: properties that have a meta tag
\* A URL is [https, slash]: its scheme and whether it ends with "/".
NoElement == 0 - 1

Issue(type, severity, impact_score) ==
    [type |-> type, severity |-> severity, impact_score |-> impact_score]

analyze_title_short30(soup) ==
    IF soup.title = NoElement THEN <<Issue("missing_title", "critical", 95)>>
    ELSE IF soup.title = 0 THEN <<Issue("empty_title", "critical", 95)>>
    ELSE IF soup.title <= 30 THEN <<Issue("short_title", "medium", 60)>>
    ELSE IF soup.title > 60 THEN <<Issue("long_title", "medium", 50)>>
    ELSE <<>>

analyze_title(soup) ==
    IF soup.title = NoElement THEN <<Issue("missing_title", "critical", 95)>>
    ELSE IF soup.title = 0 THEN <<Issue("empty_title", "critical", 95)>>
    ELSE IF soup.title < 30 THEN <<Issue("short_title", "medium", 60)>>
    ELSE IF soup.title > 60 THEN <<Issue("long_title", "medium", 50)>>
    ELSE <<>>

analyze_meta_description(soup) ==
    IF soup.meta_description = NoElement
    THEN <<Issue("missing_meta_description", "high", 80)>>
    ELSE IF soup.meta_description = 0
    THEN <<Issue("empty_meta_description", "high", 80)>>
    ELSE IF soup.meta_description < 120
    THEN <<Issue("short_meta_description", "low", 30)>>
    ELSE IF soup.meta_description > 160
    THEN <<Issue("long_meta_description", "medium", 40)>>
    ELSE <<>>

RECURSIVE ByLevel(_, _)
\* for i in range(1, 7): the tags of level i, in document order
ByLevel(headings, i) ==
    IF i > 6 THEN <<>>
    ELSE SelectSeq(headings, LAMBDA h : h = i) \o ByLevel(headings, i + 1)

analyze_heading_structure(soup) ==
    LET h1_tags == SelectSeq(soup.headings, LAMBDA h : h = 1)
        heading_levels == ByLevel(soup.headings, 1)
        skipped == \E i \in 1..(Len(heading_levels) - 1) :
                      heading_levels[i + 1] - heading_levels[i] > 1
    IN (IF Len(h1_tags) = 0 THEN <<Issue("missing_h1", "high", 85)>>
        ELSE IF Len(h1_tags) > 1 THEN <<Issue("multiple_h1", "medium", 50)>>
        ELSE <<>>)
       \o (IF skipped THEN <<Issue("skipped_heading_level", "low", 25)>> ELSE <<>>)

\* url.rstrip('/')
Rstrip(url) == [url EXCEPT !.slash = FALSE]

analyze_canonical_stripped(soup, url) ==
    IF ~soup.canonical.present THEN <<Issue("missing_canonical", "medium", 60)>>
    ELSE IF soup.canonical.href # Rstrip(url)
    THEN <<Issue("non_self_canonical", "low", 30)>>
    ELSE <<>>

analyze_canonical(soup, url) ==
    IF ~soup.canonical.present THEN <<Issue("missing_canonical", "medium", 60)>>
    ELSE IF soup.canonical.href # url /\ soup.canonical.href # Rstrip(url)
    THEN <<Issue("non_self_canonical", "low", 30)>>
    ELSE <<>>

analyze_robots_meta(soup) ==
    IF soup.robots_meta.present
    THEN (IF "noindex" \in soup.robots_meta.content
          THEN <<Issue("noindex_found", "critical", 100)>> ELSE <<>>)
         \o (IF "nofollow" \in soup.robots_meta.content
             THEN <<Issue("nofollow_found", "medium", 40)>> ELSE <<>>)
    ELSE <<>>

analyze_https(url) ==
    IF ~url.https THEN <<Issue("not_https", "high", 90)>> ELSE <<>>

analyze_schema(soup) ==
    IF soup.json_ld = 0 /\ soup.microdata = 0
    THEN <<Issue("missing_schema", "low", 35)>> ELSE <<>>

analyze_performance_indicators(soup) ==
    LET unoptimized_images == Len(SelectSeq(soup.images, LAMBDA img : ~img.sized))
    IN (IF unoptimized_images > 0
        THEN <<Issue("unoptimized_images", "medium", 45)>> ELSE <<>>)
       \o (IF soup.elements > 1500 THEN <<Issue("large_dom", "medium", 40)>> ELSE <<>>)

analyze_accessibility(soup) ==
    LET missing_alt == Len(SelectSeq(soup.images, LAMBDA img : ~img.alt))
        inputs_without_labels == Len(SelectSeq(soup.inputs, LAMBDA inp : ~inp.labelled))
    IN (IF missing_alt > 0 THEN <<Issue("missing_alt_text", "medium", 50)>> ELSE <<>>)
       \o (IF inputs_without_labels > 0
           THEN <<Issue("inputs_without_labels", "medium", 45)>> ELSE <<>>)

analyze_open_graph(soup) ==
    (IF "og:title" \notin soup.og THEN <<Issue("missing_og_title", "low", 20)>> ELSE <<>>)
    \o (IF "og:description" \notin soup.og
        THEN <<Issue("missing_og_description", "low", 20)>> ELSE <<>>)
    \o (IF "og:image" \notin soup.og THEN <<Issue("missing_og_image", "low", 15)>> ELSE <<>>)

\* the rules in the order analyze_page calls them
RuleOrder ==
    <<"analyze_title", "analyze_meta_description", "analyze_heading_structure",
      "analyze_canonical", "analyze_robots_meta", "analyze_https", "analyze_schema",
      "analyze_performance_indicators", "analyze_accessibility", "analyze_open_graph">>

Rules == SeqRange(RuleOrder)

\* self.analyze_X(soup) / self.analyze_X(soup, url) / self.analyze_https(url)
Rule(rule, soup, url) ==
    CASE rule = "analyze_title" -> analyze_title(soup)
      [] rule = "analyze_meta_description" -> analyze_meta_description(soup)
      [] rule = "analyze_heading_structure" -> analyze_heading_structure(soup)
      [] rule = "analyze_canonical" -> analyze_canonical(soup, url)
      [] rule = "analyze_robots_meta" -> analyze_robots_meta(soup)
      [] rule = "analyze_https" -> analyze_https(url)
      [] rule = "analyze_schema" -> analyze_schema(soup)
      [] rule = "analyze_performance_indicators" -> analyze_performance_indicators(soup)
      [] rule = "analyze_accessibility" -> analyze_accessibility(soup)
      [] rule = "analyze_open_graph" -> analyze_open_graph(soup)

SoupAfter_consume(rule, soup) ==
    IF rule = "analyze_robots_meta" THEN [soup EXCEPT !.og = {}] ELSE soup

\* The soup after a rule has run: the rules only call find, find_all, get and
\* get_text on it, which change nothing.
SoupAfter(rule, soup) == soup

RECURSIVE RunRules(_, _, _, _)
\* issues.extend(rule) for the rules of order, one after the other
RunRules(order, soup, url, issues) ==
    IF order = <<>> THEN issues
    ELSE RunRules(Tail(order), SoupAfter(Head(order), soup), url,
                  issues \o Rule(Head(order), soup, url))

\* analyze_page(url, content, headers, status_code); page.soup stands for
\* BeautifulSoup(content, 'html.parser')
analyze_page(page) == RunRules(RuleOrder, page.soup, page.url, <<>>)

\* A page that breaks no rule, and the pages obtained from it by the defects
\* the rules look for.
CleanUrl == [https |-> TRUE, slash |-> TRUE]
CleanSoup ==
    [title |-> 45, meta_description |-> 140, headings |-> <<1, 2>>,
     canonical |-> [present |-> TRUE, href |-> CleanUrl],
     robots_meta |-> [present |-> FALSE, content |-> {}],
     json_ld |-> 1, microdata |-> 0,
     images |-> <<[sized |-> TRUE, alt |-> TRUE]>>,
     elements |-> 40,
     inputs |-> <<[labelled |-> TRUE]>>,
     og |-> {"og:title", "og:description", "og:image"}]

Pages ==
    {[url |-> CleanUrl, soup |-> CleanSoup],
     [url |-> CleanUrl,
      soup |-> [CleanSoup EXCEPT !.title = NoElement, !.meta_description = 100,
                                 !.og = {"og:title"}]],
     [url |-> CleanUrl,
      soup |-> [CleanSoup EXCEPT !.title = 25, !.headings = <<3, 1, 1>>,
                                 !.robots_meta = [present |-> TRUE,
                                                  content |-> {"noindex", "nofollow"}]]],
     [url |-> [https |-> FALSE, slash |-> TRUE],
      soup |-> [CleanSoup EXCEPT !.title = 61, !.canonical = [present |-> FALSE,
                                                              href |-> CleanUrl]]],
     [url |-> [https |-> FALSE, slash |-> TRUE],
      soup |-> [CleanSoup EXCEPT !.canonical = [present |-> TRUE,
                                                href |-> [https |-> FALSE, slash |-> FALSE]],
                                 !.json_ld = 0,
                                 !.images = <<[sized |-> FALSE, alt |-> FALSE]>>]],
     [url |-> CleanUrl,
      soup |-> [CleanSoup EXCEPT !.title = 0, !.meta_description = NoElement,
                                 !.headings = <<>>, !.elements = 1501,
                                 !.inputs = <<[labelled |-> FALSE]>>]],
     [url |-> CleanUrl,
      soup |-> [CleanSoup EXCEPT !.meta_description = 161, !.headings = <<2, 4>>,
                                 !.microdata = 1, !.json_ld = 0,
                                 !.robots_meta = [present |-> TRUE, content |-> {}],
                                 !.og = {}]]}

\* a call of analyze_page has started and not returned
Evaluating == IF analysis = None THEN FALSE ELSE ~analysis.returned

\* analyze_page is called with a page: the document is parsed, no rule has run.
AnalyzePageStart(page) ==
    /\ ~Evaluating
    /\ analyses < MaxAnalyses
    /\ analysis' = [page |-> page, soup |-> page.soup, issues |-> <<>>,
                    done |-> {}, returned |-> FALSE]
    /\ UNCHANGED <<analyses, first_result, gate_vars, fetch_vars, new_units, crawl_job>>

\* One rule runs and analyze_page extends its list with the rule's issues.  The
\* code runs the rules in RuleOrder; here any rule that has not run may be next.
AnalyzeRule(rule) ==
    /\ Evaluating
    /\ rule \notin analysis.done
    /\ analysis' = [analysis EXCEPT
                       !.issues = @ \o Rule(rule, analysis.soup, analysis.page.url),
                       !.soup = SoupAfter(rule, @),
                       !.done = @ \cup {rule}]
    /\ UNCHANGED <<analyses, first_result, gate_vars, fetch_vars, new_units, crawl_job>>

\* return issues
AnalyzePageReturn ==
    /\ Evaluating
    /\ analysis.done = Rules
    /\ analysis' = [analysis EXCEPT !.returned = TRUE]
    /\ analyses' = analyses + 1
    /\ first_result' = IF first_result = None
                       THEN [page |-> analysis.page, issues |-> SeqRange(analysis.issues)]
                       ELSE first_result
    /\ UNCHANGED <<gate_vars, fetch_vars, new_units, crawl_job>>

RulesInit ==
    /\ CrawlInit
    /\ config = [max_urls |-> 1, max_depth |-> 0, max_concurrent |-> 1]
    /\ robots_disallowed = {}
    /\ excluded_urls = {}
    /\ GateIdle
    /\ FetchIdle
    /\ RulesIdle
    /\ ContentIdle
    /\ LateIdle

RulesNext ==
    \/ \E page \in Pages : AnalyzePageStart(page)
    \/ \E rule \in Rules : AnalyzeRule(rule)
    \/ AnalyzePageReturn

\* One analyzer evaluating pages one after the other, the rules of each
\* evaluation running in any order.
SpecRules == RulesInit /\ [][RulesNext]_vars

\* Pages for the title and canonical rules: any URL, a title of any length up
\* to MaxTitleLen or none, no canonical link or one with any href.
PageUrls == [https : BOOLEAN, slash : BOOLEAN]
RulePages ==
    {[url |-> u, soup |-> [CleanSoup EXCEPT !.title = t, !.canonical = c]] :
        u \in PageUrls, t \in NoElement..MaxTitleLen,
        c \in {[present |-> FALSE, href |-> CleanUrl]}
              \cup {[present |-> TRUE, href |-> h] : h \in PageUrls}}

\* analyze_page(url, content, headers, status_code), the whole call
AnalyzePageCall(page) ==
    /\ analyses < MaxRuleCalls
    /\ analysis' = [page |-> page, soup |-> page.soup, issues |-> analyze_page(page),
                    done |-> Rules, returned |-> TRUE]
    /\ analyses' = analyses + 1
    /\ first_result' = IF first_result = None
                       THEN [page |-> page, issues |-> SeqRange(analyze_page(page))]
                       ELSE first_result
    /\ UNCHANGED <<gate_vars, fetch_vars, new_units, crawl_job>>

RuleCallsNext == \E page \in RulePages : AnalyzePageCall(page)

\* One analyzer called on pages that differ in URL, title and canonical link.
SpecRuleCalls == RulesInit /\ [][RuleCallsNext]_vars

\* ---------------------------------------------------------------- ContentAnalyzer
\* A document is a sequence of elements [tag, text]; a text is a string over
\* a letter and the blank.
ContentTags == {"p", "script", "style", "nav", "footer"}
TextChars == {"a", " "}
Texts == UNION {[1..k -> TextChars] : k \in 0..MaxTextLen}
Contents == UNION {[1..k -> [tag : ContentTags, text : Texts]] : k \in 0..MaxElements}
ContentUrls == 1..NumContentUrls

Decompose_keepnav(content) ==
    SelectSeq(content, LAMBDA el : el.tag \notin {"script", "style", "footer"})

\* for script in soup(["script", "style", "nav", "footer"]): script.decompose()
Decompose(content) ==
    SelectSeq(content, LAMBDA el : el.tag \notin {"script", "style", "nav", "footer"})

RECURSIVE GetText(_)
\* soup.get_text(): the texts of the elements left, one after the other
GetText(content) ==
    IF content = <<>> THEN <<>> ELSE Head(content).text \o GetText(Tail(content))

RECURSIVE SplitText(_, _)
\* text.split(): the runs of non-blank characters; word is the run being read
SplitText(text, word) ==
    IF text = <<>> THEN (IF word = <<>> THEN <<>> ELSE <<word>>)
    ELSE IF Head(text) = " "
         THEN (IF word = <<>> THEN <<>> ELSE <<word>>) \o SplitText(Tail(text), <<>>)
         ELSE SplitText(Tail(text), Append(word, Head(text)))

RECURSIVE JoinWords(_)
\* ' '.join(words)
JoinWords(words) ==
    IF words = <<>> THEN <<>>
    ELSE IF Len(words) = 1 THEN Head(words)
    ELSE Head(words) \o <<" ">> \o JoinWords(Tail(words))

generate_content_hash_withurl(clean_text, url) == <<"sha256", clean_text, url>>

\* hashlib.sha256(content.encode()).hexdigest(), kept as the digest of its
\* input; url is the page's URL, which is not hashed
generate_content_hash(clean_text, url) == <<"sha256", clean_text>>

\* analyze_content(content, url): the fields the fingerprint depends on
analyze_content(content, url) ==
    LET text == GetText(Decompose(content))
        clean_text == JoinWords(SplitText(text, <<>>))
    IN [character_count |-> Len(clean_text),
        content_hash |-> generate_content_hash(clean_text, url)]

\* The visible text of a document with blanks collapsed: its words, a word
\* being a longest run of letters in the text outside script, style, nav and
\* footer elements.
VisibleWords(content) ==
    LET shown == {i \in 1..Len(content) :
                     content[i].tag \notin {"script", "style", "nav", "footer"}}
        RECURSIVE Texts_(_)
        Texts_(S) == IF S = {} THEN <<>>
                     ELSE LET m == CHOOSE x \in S : \A y \in S : x <= y
                          IN content[m].text \o Texts_(S \ {m})
        t == Texts_(shown)
        starts == {i \in 1..Len(t) : t[i] # " " /\ (i = 1 \/ t[i - 1] = " ")}
        EndOf(i) == CHOOSE j \in i..Len(t) :
                       /\ \A k \in i..j : t[k] # " "
                       /\ (j = Len(t) \/ t[j + 1] = " ")
        order == SetToSeq(starts)
    IN [k \in 1..Len(order) |-> SubSeq(t, order[k], EndOf(order[k]))]

\* analyze_content is called for a page
AnalyzeContent(content, url) ==
    LET result == analyze_content(content, url)
    IN /\ content_calls < MaxContentCalls
       /\ content_calls' = content_calls + 1
       /\ content_call' = [content |-> content, url |-> url,
                           content_hash |-> result.content_hash]
       /\ content_first' = IF content_first = None
                           THEN [words |-> VisibleWords(content),
                                 content_hash |-> result.content_hash]
                           ELSE content_first
       /\ UNCHANGED <<old_units, late_units, crawl_job>>

ContentInit ==
    /\ JobIdle
    /\ GateIdle
    /\ FetchIdle
    /\ RulesIdle
    /\ ContentIdle
    /\ LateIdle

ContentNext ==
    \E content \in Contents, url \in ContentUrls : AnalyzeContent(content, url)

\* One content analyzer called on documents at any URLs, one after the other.
SpecContent == ContentInit /\ [][ContentNext]_vars

\* ---------------------------------------------------------------- sessions of a project
SessionIds == 1..MaxSessions

\* the filter of start_crawl and delete_project: status in ("pending", "running")
ActiveSessions(rows) == {s \in SessionIds : rows[s] \in {"pending", "running"}}

\* the session rows that exist
SessionRows(rows) == {s \in SessionIds : rows[s] # "none"}

\* start_crawl for the project: HTTP 400 when the query finds a pending or
\* running session; otherwise the session row is inserted with status
\* "pending" and start_unified_crawl is scheduled as a background task.  The
\* handler has no await, so it runs without interleaving.
start_crawl_request ==
    /\ Cardinality(SessionRows(sessions)) < MaxSessions
    /\ LET running_session == ActiveSessions(sessions)
           new == Cardinality(SessionRows(sessions)) + 1
       IN IF running_session # {}
             THEN /\ last_start' = [code |-> 400, found |-> TRUE, created |-> FALSE]
                  /\ UNCHANGED <<sessions, background>>
             ELSE /\ sessions' = [sessions EXCEPT ![new] = "pending"]
                  /\ background' = [background EXCEPT ![new] = "scheduled"]
                  /\ last_start' = [code |-> 200, found |-> FALSE, created |-> TRUE]
    /\ UNCHANGED <<old_units, content_vars, save_vars, task_vars, crawl_job>>

\* stop_crawl for one session: a pending or running session becomes
\* "cancelled"; the background task is not touched.
stop_crawl_request(s) ==
    /\ sessions[s] \in {"pending", "running"}
    /\ sessions' = [sessions EXCEPT ![s] = "cancelled"]
    /\ UNCHANGED <<background, last_start>>
    /\ UNCHANGED <<old_units, content_vars, save_vars, task_vars, crawl_job>>

\* the status start_unified_crawl writes when it starts
StatusAtStart(st) == "running"

\* start_unified_crawl, the background task of session s, from its start to
\* the first commit: the row is found and set to "running" whatever it held.
start_unified_crawl_started(s) ==
    /\ background[s] = "scheduled"
    /\ sessions' = [sessions EXCEPT ![s] = StatusAtStart(@)]
    /\ background' = [background EXCEPT ![s] = "crawling"]
    /\ UNCHANGED last_start
    /\ UNCHANGED <<old_units, content_vars, save_vars, task_vars, crawl_job>>

\* start_unified_crawl, the end of the background task: "completed" after the
\* crawl and the saving, "failed" in the except branch.
start_unified_crawl_ended(s, final) ==
    /\ background[s] = "crawling"
    /\ sessions' = [sessions EXCEPT ![s] = final]
    /\ background' = [background EXCEPT ![s] = "done"]
    /\ UNCHANGED last_start
    /\ UNCHANGED <<old_units, content_vars, save_vars, task_vars, crawl_job>>

ProjectInit ==
    /\ JobIdle
    /\ UnitsIdle

ProjectNext ==
    \/ start_crawl_request
    \/ \E s \in SessionIds : stop_crawl_request(s)
    \/ \E s \in SessionIds : start_unified_crawl_started(s)
    \/ \E s \in SessionIds, final \in {"completed", "failed"} :
          start_unified_crawl_ended(s, final)

\* Requests to start and to stop crawls of one project, and the background
\* tasks of its sessions, in any order.
SpecProject == ProjectInit /\ [][ProjectNext]_vars

\* ---------------------------------------------------------------- save_crawl_results
\* the keyword arguments save_crawl_results passes to Page(...)
PageKeywords ==
    {"session_id", "url", "status_code", "title", "meta_description", "h1",
     "word_count", "load_time", "content_hash", "technical_issues",
     "content_analysis", "headers", "depth"}

\* the attributes of class Page: its columns and relationships, and what the
\* declarative base gives every model
PageAttributes ==
    {"id", "crawl_session_id", "url", "title", "status_code", "load_time",
     "word_count", "created_at", "crawl_session", "issues", "metadata", "registry"}

\* Page(**kwargs): the constructor of the declarative base sets each keyword
\* that is an attribute of the class and raises TypeError for any other.
PageAccepts(keywords) == keywords \subseteq PageAttributes

\* the page results handed to save_crawl_results, each with its issue count
ResultLists ==
    UNION {[1..n -> 0..MaxPageIssues] : n \in 0..MaxResults}

\* the rows of one page result
PageRow(i) == [kind |-> "page", page |-> i, issue |-> 0]
IssueRows(i, rs) == {[kind |-> "issue", page |-> i, issue |-> k] : k \in 1..rs[i]}

\* save_crawl_results is called with a list of page results; the database
\* will raise at the commit of the page results in refuses.
save_crawl_results_call(rs, refuses) ==
    /\ save_pc = "idle"
    /\ results' = rs
    /\ db_refuses' = refuses
    /\ save_pc' = "loop"
    /\ UNCHANGED <<save_pos, db_pending, db_rows, saved_pages, save_failed>>
    /\ UNCHANGED <<old_units, content_vars, project_vars, task_vars, crawl_job>>

\* One pass of "for page_data in results": Page(...) is built, added and
\* committed, the issue records are added to the db session and the page is
\* appended to saved_pages; any exception is logged and answered with
\* db.rollback(), which drops whatever the db session holds uncommitted.
SavePage ==
    /\ save_pc = "loop"
    /\ save_pos <= Len(results)
    /\ LET i == save_pos
       IN IF ~PageAccepts(PageKeywords) \/ i \in db_refuses
             THEN /\ db_pending' = {}
                  /\ save_failed' = save_failed \cup {i}
                  /\ UNCHANGED <<db_rows, saved_pages>>
             ELSE /\ db_rows' = db_rows \cup db_pending \cup {PageRow(i)}
                  /\ db_pending' = IssueRows(i, results)
                  /\ saved_pages' = Append(saved_pages, i)
                  /\ UNCHANGED save_failed
    /\ save_pos' = save_pos + 1
    /\ UNCHANGED <<results, db_refuses, save_pc>>
    /\ UNCHANGED <<old_units, content_vars, project_vars, task_vars, crawl_job>>

\* After the loop: db.commit() and return saved_pages.
save_crawl_results_return ==
    /\ save_pc = "loop"
    /\ save_pos > Len(results)
    /\ db_rows' = db_rows \cup db_pending
    /\ db_pending' = {}
    /\ save_pc' = "returned"
    /\ UNCHANGED <<results, db_refuses, save_pos, saved_pages, save_failed>>
    /\ UNCHANGED <<old_units, content_vars, project_vars, task_vars, crawl_job>>

SaveInit ==
    /\ JobIdle
    /\ UnitsIdle

SaveNext ==
    \/ \E rs \in ResultLists, refuses \in SUBSET (1..MaxResults) :
          /\ refuses \subseteq 1..Len(rs)
          /\ save_crawl_results_call(rs, refuses)
    \/ SavePage
    \/ save_crawl_results_return

\* One call of save_crawl_results on any list of page results.
SpecSave == SaveInit /\ [][SaveNext]_vars

\* ---------------------------------------------------------------- crawl_website_task
\* the parameters of crawl_website_task's progress_callback (pages_crawled, stats)
CallbackParameters == 2

\* the arguments crawl_website passes to progress_callback (one dict)
CallArguments == 1

\* A call binds its positional arguments to the parameters; the callback has
\* no default and no *args, so any other number raises TypeError at the call.
Binds(parameters, arguments) == arguments = parameters

\* len(saved_pages) for the pages crawl_website returned, the database raising
\* nothing: all of them when Page(...) accepts its keywords, none otherwise
SavedCount(pages) == IF PageAccepts(PageKeywords) THEN Len(pages) ELSE 0

\* crawl_website_task up to run_crawler, and crawl_website up to its loop: the
\* session is set to "running", the frontier holds the seed.
crawl_website_task_begin ==
    /\ pc = "queued"
    /\ status' = "running"
    /\ urls_to_crawl' = <<[url |-> start_url, depth |-> 0]>>
    /\ crawled_pages' = <<>>
    /\ created' = {[url |-> start_url, depth |-> 0, from |-> None]}
    /\ pc' = "loop"
    /\ UNCHANGED <<inputs, units, visited_urls, stats, semaphore, tasks, ri, fetch_log,
                   failed_urls, gate_skips, aux>>

\* One pass of "for result in batch_results" with the task's progress_callback:
\* for a page, the call progress_callback({...}) raises when the argument does
\* not bind; when it binds, the callback sets session.crawled_urls.
TaskProcessResult ==
    /\ pc = "results"
    /\ LET collected == tasks[ri].result # None
           accepted == Binds(CallbackParameters, CallArguments)
       IN /\ ProcessBatchResult(collected => accepted)
          /\ task_crawled_urls' =
                IF collected /\ accepted THEN Len(crawled_pages) + 1 ELSE task_crawled_urls
    /\ UNCHANGED <<old_units, content_vars, project_vars, save_vars>>

\* crawl_website_task after crawl_website returned: the results are saved, the
\* session is marked "completed" and crawled_urls is set to len(saved_pages).
crawl_website_task_complete ==
    /\ pc = "returned"
    /\ status' = "completed"
    /\ task_crawled_urls' = SavedCount(crawled_pages)
    /\ pc' = "end"
    /\ UNCHANGED <<inputs, crawler_vars, aux>>
    /\ UNCHANGED <<old_units, content_vars, project_vars, save_vars>>

\* crawl_website_task's except branch: the session is marked "failed" and
\* error_message is set to str(e).
crawl_website_task_fail ==
    /\ pc = "raised"
    /\ status' = "failed"
    /\ error_message' = exc
    /\ pc' = "end"
    /\ UNCHANGED <<inputs, units, crawler_vars, exc, snapshots>>

\* The session row exists and is pending; the Celery task has been queued.
TaskInit ==
    /\ config \in Configs
    /\ robots_disallowed \in SUBSET URLS
    /\ excluded_urls \in SUBSET URLS
    /\ Cardinality(robots_disallowed \cup excluded_urls) <= MaxBlocked
    /\ technical_issues = [u \in URLS |-> 0]
    /\ status = "pending"
    /\ pc = "queued"
    /\ CrawlerNew
    /\ UnitsIdle

TaskNext ==
    \/ crawl_website_task_begin
    \/ crawl_website_task_complete
    \/ crawl_website_task_fail
    \/ StartBatch
    \/ \E i \in 1..MaxMaxConcurrent : FetchEnter(i)
    \/ \E i \in 1..MaxMaxConcurrent, links \in SUBSET URLS : FetchSucceed(i, links)
    \/ \E i \in 1..MaxMaxConcurrent : FetchFail(i)
    \/ GatherDone
    \/ TaskProcessResult
    \/ CrawlReturn

\* One run of crawl_website_task.
SpecTask == TaskInit /\ [][TaskNext]_vars

\* ---------------------------------------------------------------- properties
PageIndexes(url) == {i \in 1..Len(crawled_pages) : crawled_pages[i].url = url}
InFlight == {i \in 1..Len(tasks) : tasks[i].st = "fetching"}
Blocked(url) == ~can_fetch(url) \/ should_exclude_url(url)
Stopped == pc \in {"returned", "raised", "end"}
\* crawl_website has left its while loop by the loop condition
LoopEnded == Stopped /\ exc # "observer"

\* C1: within one crawl job no URL is HTTP-fetched more than once and the page
\* list never holds two page records with the same URL.
C1_FetchedAtMostOnce ==
    \A u \in URLS :
        /\ Len(fetch_log[u]) <= 1
        /\ Cardinality(PageIndexes(u)) <= 1

\* C1 witness: one batch held two tasks for the same URL, which two different
\* pages had linked; one of them produced the page, the other was turned away.
C1_Witness ==
    /\ pc = "results"
    /\ \E i, j \in 1..Len(tasks) :
          /\ i < j
          /\ tasks[i].url = tasks[j].url
          /\ (tasks[i].result # None) # (tasks[j].result # None)
          /\ \E e, f \in created :
                e.url = tasks[i].url /\ f.url = e.url /\ e.from # f.from

\* C2: the number of page records produced never exceeds max_urls.
C2_PagesWithinMaxUrls == Len(crawled_pages) <= config.max_urls

\* C3: when crawl_website stops dispatching, the frontier is empty or exactly
\* max_urls pages have been produced.
C3_StopsAtEmptyOrMaxUrls ==
    LoopEnded => (urls_to_crawl = <<>> \/ Len(crawled_pages) = config.max_urls)

\* C4: at every point the number of fetches in flight (past the gate, not yet
\* returned) is at most max_concurrent.
C4_InFlightWithinMaxConcurrent == Cardinality(InFlight) <= config.max_concurrent

\* C4 witness: max_concurrent fetches in flight at once, more entries waiting.
C4_Witness ==
    /\ config.max_concurrent >= 2
    /\ Cardinality(InFlight) = config.max_concurrent
    /\ urls_to_crawl # <<>>

\* C5: no URL is fetched at a depth greater than max_depth and no page record
\* has a depth greater than max_depth.
C5_DepthWithinMaxDepth ==
    /\ \A u \in URLS : \A k \in 1..Len(fetch_log[u]) :
          fetch_log[u][k] <= config.max_depth
    /\ \A i \in 1..Len(crawled_pages) : crawled_pages[i].depth <= config.max_depth

\* C5 witness: a page at depth max_depth >= 1 links to a URL never visited: the
\* crawl stopped at the depth limit with that URL unfetched.
C5_Witness ==
    /\ pc = "end"
    /\ config.max_depth >= 1
    /\ \E i \in 1..Len(crawled_pages) :
          /\ crawled_pages[i].depth = config.max_depth
          /\ \E l \in SeqRange(crawled_pages[i].internal_links) :
                l \notin visited_urls /\ ~Blocked(l)

\* C6: the seed entry has depth 0, every other frontier entry has the depth of
\* the page record whose links produced it plus one, and a page record stores
\* the depth its URL was dispatched with.
C6_EntryDepthIsParentPlusOne ==
    /\ \A e \in created :
          IF e.from = None
             THEN e.url = start_url /\ e.depth = 0
             ELSE e.depth = e.from[2] + 1
    /\ \A i \in 1..Len(crawled_pages) :
          LET p == crawled_pages[i]
          IN \E k \in 1..Len(fetch_log[p.url]) : fetch_log[p.url][k] = p.depth

\* C6 witness: a page at depth 2 was produced from an entry a depth-1 page created.
C6_Witness ==
    \E i \in 1..Len(crawled_pages) :
        /\ crawled_pages[i].depth = 2
        /\ \E e \in created :
              /\ e.url = crawled_pages[i].url
              /\ e.depth = 2
              /\ e.from # None
              /\ e.from[2] = 1

\* C7: a failed fetch adds exactly one to stats.failed, yields no page record,
\* enqueues none of the URL's links, and does not abort the job: the crawl
\* still runs until its loop condition ends it and returns normally.
C7_FetchFailureIsIsolated ==
    /\ stats.failed = Cardinality(failed_urls)
    /\ \A u \in failed_urls :
          /\ PageIndexes(u) = {}
          /\ \A i \in 1..Len(tasks) : tasks[i].url = u => tasks[i].result = None
          /\ \A e \in created : e.from # None => e.from[1] # u
    /\ (failed_urls # {} /\ Stopped) =>
          /\ exc # "ZeroDivisionError"
          /\ exc = "none" =>
                /\ ~LoopCondition(urls_to_crawl, crawled_pages, config)
                /\ pc # "raised"
                /\ status # "failed"

\* C7 witness: after the failed fetch of a URL the job produced a page from a
\* deeper frontier entry and completed.
C7_Witness ==
    /\ status = "completed"
    /\ \E u \in failed_urls : \E i \in 1..Len(crawled_pages) :
          crawled_pages[i].depth > fetch_log[u][1]

\* C8: a URL disallowed by robots or excluded by the patterns, the seed
\* included, yields no page record, is counted neither in stats.failed nor in
\* stats.total_processed, and the crawl returns normally.
C8_BlockedUrlIsSkippedQuietly ==
    /\ \A u \in URLS : Blocked(u) => (PageIndexes(u) = {} /\ fetch_log[u] = <<>>)
    /\ stats.total_processed = Cardinality({u \in URLS : fetch_log[u] # <<>>})
    /\ stats.failed = Cardinality(failed_urls)
    /\ (config.max_depth >= 0 /\ \E u \in URLS : Blocked(u)) =>
          exc # "ZeroDivisionError"

\* C9: a URL whose fetch failed stays in the visited set and is never fetched
\* again in the job.
C9_FailedUrlIsFinal ==
    \A u \in failed_urls : u \in visited_urls /\ Len(fetch_log[u]) = 1

\* C9 witness: a URL was dispatched again after its fetch had failed and was
\* turned away at the gate.
C9_Witness == \E g \in gate_skips : g.after_failure /\ g.url \in failed_urls

\* C10: once a running job is cancelled its status stays cancelled and no new
\* batch is dispatched.
C10_CancelStopsDispatch ==
    [][(status = "cancelled" /\ pc \in {"loop", "gather", "results", "returned"})
         => (status' = "cancelled" /\ ~(pc = "loop" /\ pc' = "gather"))]_vars

\* C11: a session's status only moves along pending -> running -> {completed,
\* failed, cancelled} (a pending session may also be cancelled directly); the
\* three final statuses are never overwritten.
C11_StatusOnlyMovesForward ==
    [][\/ status' = status
       \/ status = "none" /\ status' = "pending"
       \/ status = "pending" /\ status' \in {"running", "cancelled"}
       \/ status = "running" /\ status' \in {"completed", "failed", "cancelled"}]_vars

C13_ObserverFailureDoesNotAbort == pc = "raised" => exc # "observer"

\* C14: at every batch boundary the observer has been invoked once for every
\* dispatch that completed, successful or failed.
C14_SnapshotPerCompletedDispatch ==
    (pc = "loop" /\ exc = "none") => Len(snapshots) = stats.successful + stats.failed

\* C15 as stated: the frontier and the visited set change only while no fetch
\* of the batch is in flight.
C15_MutatedOnlyBetweenBatches ==
    [][(urls_to_crawl' # urls_to_crawl \/ visited_urls' # visited_urls)
         => InFlight = {}]_vars

\* C15 as amended: the frontier changes only when every task of the batch is
\* done; the visited set is changed by a fetch task entering the gate, which
\* adds its own, not yet visited, URL in that single step.
C15_FrontierBetweenBatchesVisitedByGate ==
    [][/\ urls_to_crawl' # urls_to_crawl =>
             \A i \in 1..Len(tasks) : tasks[i].st = "done"
       /\ visited_urls' # visited_urls =>
             \E i \in 1..Len(tasks) :
                /\ tasks[i].st = "created"
                /\ tasks'[i].st = "fetching"
                /\ tasks[i].url \notin visited_urls
                /\ visited_urls' = visited_urls \cup {tasks[i].url}]_vars

\* C15 witness: a batch of two fetches both added their URL to the visited set
\* while the batch ran, and the links of the first were appended to the
\* frontier after the batch.
C15_Witness ==
    /\ pc = "results"
    /\ ri = 2
    /\ Len(tasks) = 2
    /\ tasks[1].result # None
    /\ tasks[2].result # None
    /\ \E e \in created : e.from = <<tasks[1].url, tasks[1].depth>>

\* the policy of the scheme+host was retrieved: a robots.txt body was read and parsed
PolicyRetrieved(domain) ==
    /\ robots_cache[domain] # None
    /\ robots_cache[domain].last_checked

\* C16: with respect_robots on, can_fetch answers true for a URL of a
\* scheme+host whose robots policy could not be retrieved; with respect_robots
\* off it answers true and requests no robots.txt.
C16_FailOpenWithoutPolicy ==
    gate_call # None =>
        /\ ~gate_config.respect_robots =>
              (gate_call.verdict /\ gate_call.read = "none" /\
               \A d \in Domains : robots_reads[d] = 0)
        /\ (gate_config.respect_robots /\ ~PolicyRetrieved(Domain(gate_call.url)))
              => gate_call.verdict

\* C17: over any sequence of can_fetch calls, RobotFileParser.read returns at
\* most once per scheme+host, and a call for a cached scheme+host requests
\* nothing.
C17_PolicyRetrievedAtMostOnce ==
    /\ \A d \in Domains : robots_reads[d] <= 1
    /\ \A d \in Domains : (robots_reads[d] = 1) <=> (robots_cache[d] # None)

\* C17 witness: three calls for one scheme+host, the first retrieved a policy
\* and the last was answered from the cache.
C17_Witness ==
    /\ gate_calls = MaxGateCalls
    /\ gate_call.read = "none"
    /\ gate_config.respect_robots
    /\ PolicyRetrieved(Domain(gate_call.url))
    /\ robots_reads[Domain(gate_call.url)] = 1
    /\ \A d \in Domains : d # Domain(gate_call.url) => robots_cache[d] = None

\* C18: should_exclude_url(url) is true exactly when some exclude pattern is a
\* substring of the URL, or include_patterns is not empty and no include
\* pattern is a substring of the URL.
C18_ExcludedIffPatternsSaySo ==
    gate_call # None =>
        (gate_call.verdict <=>
            \/ \E i \in 1..Len(gate_config.exclude_patterns) :
                  IsSubstring(gate_config.exclude_patterns[i], gate_call.url)
            \/ /\ gate_config.include_patterns # <<>>
               /\ \A i \in 1..Len(gate_config.include_patterns) :
                     ~IsSubstring(gate_config.include_patterns[i], gate_call.url))

\* C18 witness: a URL that contains a non-empty exclude pattern and a non-empty
\* include pattern was excluded.
C18_Witness ==
    /\ gate_call # None
    /\ gate_call.verdict
    /\ \E i \in 1..Len(gate_config.exclude_patterns) :
          /\ gate_config.exclude_patterns[i] # <<>>
          /\ IsSubstring(gate_config.exclude_patterns[i], gate_call.url)
    /\ \E i \in 1..Len(gate_config.include_patterns) :
          /\ gate_config.include_patterns[i] # <<>>
          /\ IsSubstring(gate_config.include_patterns[i], gate_call.url)

\* C19: a fetch whose static request succeeded and whose render pass failed
\* yields a page made from the static body, adds one to stats.successful and
\* leaves stats.failed as it was.
C19_RenderFailureFallsBackToStatic ==
    [][(fetch_stats'.total_processed # fetch_stats.total_processed
        /\ fetch_call'.render = "failed")
       => /\ fetch_call'.page # None
          /\ fetch_call'.page.content = fetch_call'.static
          /\ fetch_stats'.successful = fetch_stats.successful + 1
          /\ fetch_stats'.failed = fetch_stats.failed]_vars

\* C19 witness: the render pass of the last fetch failed, its page holds the
\* static body, and no fetch of this crawler has been counted as failed.
C19_Witness ==
    /\ fetch_call # None
    /\ fetch_call.render = "failed"
    /\ fetch_call.page # None
    /\ fetch_call.page.content = fetch_call.static
    /\ fetch_stats.successful >= 1
    /\ fetch_stats.failed = 0

\* C20: whatever the order in which the rules ran, and whatever page was
\* evaluated before, analyze_page returns the set of issue records that the
\* rules give for the page alone, and the same set as an earlier evaluation of
\* the same page.
C20_RuleEngineIsDeterministic ==
    (analysis # None /\ analysis.returned) =>
        /\ SeqRange(analysis.issues) = SeqRange(analyze_page(analysis.page))
        /\ Len(analysis.issues) = Len(analyze_page(analysis.page))
        /\ first_result.page = analysis.page =>
              SeqRange(analysis.issues) = first_result.issues

\* C20 witness: a page with at least three issues has been evaluated after
\* another page that had issues, with the rules in another order than
\* analyze_page's (analyze_title was the last rule to add an issue).
C20_Witness ==
    /\ analysis # None
    /\ analysis.returned
    /\ analyses = 2
    /\ first_result.page # analysis.page
    /\ first_result.issues # {}
    /\ Len(analysis.issues) >= 3
    /\ analysis.issues # analyze_page(analysis.page)
    /\ analysis.issues[Len(analysis.issues)].type = "short_title"

\* the records of the given types among the issues of the last call, in order
IssuesOfType(types) == SelectSeq(analysis.issues, LAMBDA issue : issue.type \in types)

TitleIssueTypes == {"missing_title", "empty_title", "short_title", "long_title"}

\* C21: a page without title element gets exactly the record missing_title
\* (critical, 95); a stripped title of 1 to 29 characters gets short_title
\* (medium, 60); a title of 30 to 60 characters gets no title record; no page
\* gets more than one title record.
C21_TitleRule ==
    analysis # None =>
        LET title == analysis.page.soup.title
            title_issues == IssuesOfType(TitleIssueTypes)
        IN /\ title = NoElement =>
                 title_issues = <<Issue("missing_title", "critical", 95)>>
           /\ (title >= 1 /\ title <= 29) =>
                 title_issues = <<Issue("short_title", "medium", 60)>>
           /\ (title >= 30 /\ title <= 60) => title_issues = <<>>
           /\ Len(title_issues) <= 1

\* C21 witness: a page whose title has 25 characters got short_title.
C21_Witness ==
    /\ analysis # None
    /\ analysis.page.soup.title = 25
    /\ IssuesOfType(TitleIssueTypes) = <<Issue("short_title", "medium", 60)>>

CanonicalIssueTypes == {"missing_canonical", "non_self_canonical"}

\* C22: a page whose canonical href equals its own URL gets no canonical
\* record; a page without canonical link gets exactly missing_canonical.
C22_CanonicalRule ==
    analysis # None =>
        LET canonical == analysis.page.soup.canonical
            canonical_issues == IssuesOfType(CanonicalIssueTypes)
        IN /\ (canonical.present /\ canonical.href = analysis.page.url) =>
                 canonical_issues = <<>>
           /\ ~canonical.present =>
                 /\ Len(canonical_issues) = 1
                 /\ canonical_issues[1].type = "missing_canonical"

\* C22 witness: a page whose URL ends with "/" and whose canonical href is
\* that URL got no canonical record.
C22_Witness ==
    /\ analysis # None
    /\ analysis.page.url.slash
    /\ analysis.page.soup.canonical.present
    /\ analysis.page.soup.canonical.href = analysis.page.url
    /\ IssuesOfType(CanonicalIssueTypes) = <<>>

\* C23: a document whose visible text, blanks collapsed, is that of the first
\* document analyzed gets the first document's fingerprint, whatever its URL
\* and whatever was analyzed in between.
C23_FingerprintOfVisibleText ==
    (content_call # None /\ VisibleWords(content_call.content) = content_first.words)
        => content_call.content_hash = content_first.content_hash

\* C23 witness: a document at another URL, with a script of its own and a
\* blank in its visible text, has the visible words of the first document
\* and got the first one's fingerprint.
C23_Witness ==
    /\ content_call # None
    /\ content_first.words # <<>>
    /\ VisibleWords(content_call.content) = content_first.words
    /\ content_call.content_hash = content_first.content_hash
    /\ content_call.url = 2
    /\ \E i \in 1..Len(content_call.content) :
          /\ content_call.content[i].tag = "script"
          /\ content_call.content[i].text = <<"a", "a">>
    /\ \E i \in 1..Len(content_call.content) :
          /\ content_call.content[i].tag = "p"
          /\ content_call.content[i].text = <<" ", "a">>

\* the URLs for which fetch_page issued its HTTP GET
Attempted == {u \in URLS : fetch_log[u] # <<>>}

\* C24: at every batch boundary total_processed = successful + failed = size
\* of visited_urls, the number of pages collected is successful, and
\* visited_urls is the set of URLs whose HTTP fetch was attempted.
C24_CountersAgreeAtBatchBoundary ==
    pc = "loop" =>
        /\ stats.total_processed = stats.successful + stats.failed
        /\ stats.total_processed = Cardinality(visited_urls)
        /\ Len(crawled_pages) = stats.successful
        /\ visited_urls = Attempted

\* C24 witness: a batch boundary after fetches that succeeded, a fetch that
\* failed and a dispatch turned away at the gate.
C24_Witness ==
    /\ pc = "loop"
    /\ stats.successful >= 2
    /\ stats.failed >= 1
    /\ gate_skips # {}

\* C25: crawl_website never holds more than max_urls + max_concurrent - 1
\* pages.
C25_PagesWithinMaxUrlsPlusBatch ==
    Len(crawled_pages) <= config.max_urls + config.max_concurrent - 1

\* C25 witness: with two fetches at a time crawl_website returned exactly
\* max_urls + max_concurrent - 1 pages.
C25_Witness ==
    /\ pc = "returned"
    /\ config.max_concurrent = 2
    /\ Len(crawled_pages) = config.max_urls + config.max_concurrent - 1

\* C26: at every batch boundary the frontier is ordered by non-decreasing
\* depth and holds at most two consecutive depths, and every URL fetched was
\* fetched at the smallest depth of the frontier entries ever created for it.
C26_BreadthFirst ==
    pc = "loop" =>
        /\ \A i \in 1..(Len(urls_to_crawl) - 1) :
              urls_to_crawl[i].depth <= urls_to_crawl[i + 1].depth
        /\ \A i, j \in 1..Len(urls_to_crawl) :
              urls_to_crawl[j].depth - urls_to_crawl[i].depth <= 1
        /\ \A e \in created :
              fetch_log[e.url] # <<>> => fetch_log[e.url][1] <= e.depth

\* C26 witness: a URL that had frontier entries at depths 1 and 2 was fetched
\* at depth 1, and the frontier holds entries of two depths.
C26_Witness ==
    /\ pc = "loop"
    /\ \E e1, e2 \in created :
          /\ e1.url = e2.url
          /\ e1.depth = 1
          /\ e2.depth = 2
          /\ fetch_log[e1.url] = <<1>>
    /\ \E i, j \in 1..Len(urls_to_crawl) : urls_to_crawl[i].depth < urls_to_crawl[j].depth

RECURSIVE SumIssues(_, _)
\* the issues of the first n pages collected
SumIssues(pages, n) ==
    IF n = 0 THEN 0 ELSE technical_issues[pages[n].url] + SumIssues(pages, n - 1)

\* C27: the snapshots handed to the progress callback carry pages_crawled
\* 1, 2, 3, ... in order, the URL of the page just collected and the summed
\* issue count of the pages collected so far, which never decreases; there is
\* exactly one snapshot per page collected.
C27_SnapshotsFollowPages ==
    /\ Len(snapshots) = Len(crawled_pages)
    /\ \A i \in 1..Len(snapshots) :
          /\ snapshots[i].pages_crawled = i
          /\ snapshots[i].current_url = crawled_pages[i].url
          /\ snapshots[i].total_issues = SumIssues(crawled_pages, i)
          /\ i > 1 => snapshots[i].total_issues >= snapshots[i - 1].total_issues

\* C27 witness: three snapshots, the issue count growing with the second
\* page and staying with the third.
C27_Witness ==
    /\ Len(snapshots) = 3
    /\ snapshots[1].total_issues = 0
    /\ snapshots[2].total_issues = 1
    /\ snapshots[3].total_issues = 1

C30_TaskCompletesWhenPagesWereCrawled ==
    /\ Len(crawled_pages) >= 1 => exc # "observer"
    /\ (pc = "end" /\ Len(crawled_pages) >= 1) =>
          (status = "completed" /\ task_crawled_urls = SavedCount(crawled_pages))
    /\ (pc = "end" /\ status = "failed") => exc \in {"ZeroDivisionError", "save"}

====
